---- MODULE Spec2Model ----
(***************************************************************************)
(* State-machine model of the SMPL processing worker                       *)
(* (src/smpl-processor/smpl_processor.py): SMPLProcessor.process_image and *)
(* the helpers it calls, the lazily loaded model cache, the process-wide   *)
(* stats and get_health_status.                                            *)
(*                                                                         *)
(* One worker thread runs one process_image invocation at a time; pc is    *)
(* its position inside process_image.  Every call to a collaborator (S3,   *)
(* EventBridge, CloudWatch, the local file system) may succeed or raise:   *)
(* that outcome is the input each action draws with \E.                    *)
(***************************************************************************)
EXTENDS Integers, Sequences, FiniteSets, TLC

(* ------------------------------ bounds -------------------------------- *)
\* number of process_image invocations the caller makes
MaxSessions == 2
\* number of second boundaries that pass during the run
MaxTime == 1

(* --------------------------- program constants ------------------------ *)
\* int(os.getenv('MAX_IMAGE_SIZE_MB', '50'))
max_image_size_mb == 50
\* minimum width and height accepted by _validate_image
MinDimension == 256
BytesPerMB == 1024 * 1024

SessionIds == {"S1", "S2"}

\* model_files of _load_smpl_models, in the order of the list
ModelFileList == <<"basicModel_f", "basicModel_m", "basicModel_neutral">>
ModelFiles == {ModelFileList[i] : i \in 1..Len(ModelFileList)}
\* the handle set _load_smpl_models installs
ModelHandles ==
    [female |-> "basicModel_f", male |-> "basicModel_m", neutral |-> "basicModel_neutral"]
NoModels == <<>>

\* guidance_assets in insertion order, each with the file it is written to
AssetOrder == <<"depth", "normals", "pose", "segments", "prompt">>
AssetKinds == {AssetOrder[i] : i \in 1..Len(AssetOrder)}
\* local file of an asset kind as <<stem, extension>> (temp_dir/stem.extension)
AssetFile ==
    [depth |-> <<"depth", "png">>, normals |-> <<"normals", "png">>,
     pose |-> <<"pose", "png">>, segments |-> <<"segments", "png">>,
     prompt |-> <<"prompt", "txt">>]

\* the stages of process_image in program order
StageOrder == <<"makedirs", "download", "pose", "fit", "generate", "upload", "publish">>

VARIABLES
    pc,               \* position of the worker inside process_image
    now,              \* the wall clock, in whole seconds
    session_id,       \* argument of the running (or last) invocation
    start_time,       \* local start_time of the invocation
    processed_count,  \* self.stats['processed_count']
    error_count,      \* self.stats['error_count']
    last_activity,    \* self.stats['last_activity']
    smpl_models,      \* self._smpl_models
    model_files,      \* model files present under model_paths['smpl']
    temp_exists,      \* session ids whose /app/temp/<id> directory exists
    guidance_bucket,  \* keys stored in the guidance bucket
    s3_keys,          \* local s3_keys of _upload_guidance_assets, in upload order
    overwritten,      \* keys of s3_keys that named an object already in the bucket
    pose_results,     \* <<pose_results>> once _estimate_pose_romp has returned
    put_events,       \* put_events calls of this invocation, with their outcome
    metric_calls,     \* put_metric_data calls of this invocation, with their outcome
    stages_run,       \* stages started by this invocation, in order
    error,            \* the exception in flight, "none" when there is none
    outcome,          \* "none", "success" (return) or "failure" (raise)
    cleanups,         \* _cleanup_temp_files calls of this invocation, with what each did
    stats_at_start,   \* processed_count and error_count when the invocation began
    load_log,         \* one entry per _load_smpl_models call of the process
    sessions_started, \* process_image invocations so far
    health,           \* value returned by the last get_health_status, or NoHealth
    signalled_at,     \* pc at which the first SIGTERM/SIGINT was handled, or "none"
    image,            \* the file a direct _validate_image call is given
    verdict,          \* what that _validate_image call did, "pending" before it
    importable,       \* packages the container's Python can import
    existing_paths,   \* directories present in the container
    exit_status       \* <<code>> once healthcheck.py has exited, <<>> before

vars ==
    <<pc, now, session_id, start_time, processed_count, error_count, last_activity,
      smpl_models, model_files, temp_exists, guidance_bucket, s3_keys,
      put_events, metric_calls, stages_run, error, outcome, cleanups, stats_at_start,
      load_log, sessions_started, health, overwritten, pose_results,
      signalled_at, image, verdict, importable, existing_paths, exit_status>>

NoHealth == [status |-> "none"]
NoSession == "none"

\* an image file: its size in bytes and what PIL reports for it
Image(size, format, width, height) ==
    [size |-> size, format |-> format, width |-> width, height |-> height]

(* ------------------------------- helpers ------------------------------ *)
\* the variables only _load_smpl_models touches
modelVars == <<smpl_models, model_files, load_log>>
\* the process-wide stats
statVars == <<processed_count, error_count, last_activity>>
\* the remote side of the upload stage
uploadVars == <<guidance_bucket, s3_keys, overwritten>>
\* what the invocation has told the event bus and the metrics sink
busVars == <<put_events, metric_calls>>
\* what only the signal handler and the direct _validate_image call touch
\* what only healthcheck.py reads and sets
containerVars == <<importable, existing_paths, exit_status>>
probeVars == <<signalled_at, image, verdict, containerVars>>

(* ------------------------------- Init --------------------------------- *)
\* __init__: empty model cache, zero counters, start_time = last_activity = now.
\* Model files may already be on the local disk (baked into the image).
InitWorker ==
    /\ pc = "idle"
    /\ now = 0
    /\ session_id = NoSession
    /\ start_time = 0
    /\ processed_count = 0
    /\ error_count = 0
    /\ last_activity = 0
    /\ smpl_models = NoModels
    /\ model_files \in SUBSET ModelFiles
    /\ temp_exists = {}
    /\ guidance_bucket = {}
    /\ s3_keys = <<>>
    /\ put_events = <<>>
    /\ metric_calls = <<>>
    /\ stages_run = <<>>
    /\ error = "none"
    /\ outcome = "none"
    /\ cleanups = <<>>
    /\ stats_at_start = [processed_count |-> 0, error_count |-> 0]
    /\ load_log = <<>>
    /\ sessions_started = 0
    /\ health = NoHealth
    /\ overwritten = <<>>
    /\ pose_results = <<>>
    /\ signalled_at = "none"
    /\ verdict = "pending"
    /\ exit_status = <<>>

\* healthcheck.py, lines 11-14 and 27-31, in the order of the lists
RequiredPackageList ==
    <<"torch", "torchvision", "cv2", "numpy", "scipy",
      "PIL", "skimage", "boto3", "yaml", "smplx">>
RequiredPackages == {RequiredPackageList[i] : i \in 1..Len(RequiredPackageList)}
ModelPathList == <<"/app/models/smpl", "/app/weights", "/app/configs">>
ModelPaths == {ModelPathList[i] : i \in 1..Len(ModelPathList)}

\* the container the worker runs in: every package and directory is there
ContainerComplete ==
    /\ importable = RequiredPackages
    /\ existing_paths = ModelPaths

\* the worker as main starts it: no file is handed to _validate_image directly
Init ==
    /\ InitWorker
    /\ ContainerComplete
    /\ image = Image(1024, "JPEG", 256, 256)

(* ------------------------------- clock -------------------------------- *)
\* a second boundary passes
Tick ==
    /\ now < MaxTime
    /\ now' = now + 1
    /\ UNCHANGED <<pc, session_id, start_time, statVars, modelVars, temp_exists,
                   uploadVars, busVars, stages_run, error, outcome, cleanups, stats_at_start,
                   sessions_started, health, pose_results, probeVars>>

(* --------------------------- process_image ---------------------------- *)
\* Fail as it would be if the failing stage were tried again
FailRetriesStage(e) ==
    /\ error' = "none"
    /\ pc' = pc

\* Fail as it would be if the except-clause caught only the processing errors
FailNarrowCatch(e) ==
    /\ error' = e
    /\ pc' = IF e \in {"upload", "publish"} THEN "cleanup" ELSE "count_error"

\* the except-clause of process_image is entered with exception e
Fail(e) ==
    /\ error' = e
    /\ pc' = "count_error"

\* lines 187-188: the caller invokes process_image(session_id, ...)
ProcessImageBegin ==
    /\ pc \in {"idle", "done"}
    /\ sessions_started < MaxSessions
    /\ \E sid \in SessionIds : session_id' = sid
    /\ sessions_started' = sessions_started + 1
    /\ start_time' = now
    /\ pc' = "makedirs"
    /\ s3_keys' = <<>>
    /\ put_events' = <<>>
    /\ metric_calls' = <<>>
    /\ stages_run' = <<>>
    /\ error' = "none"
    /\ outcome' = "none"
    /\ cleanups' = <<>>
    /\ stats_at_start' = [processed_count |-> processed_count, error_count |-> error_count]
    /\ health' = NoHealth
    /\ overwritten' = <<>>
    /\ pose_results' = <<>>
    /\ UNCHANGED <<now, statVars, modelVars, temp_exists, guidance_bucket, probeVars>>

\* line 192: os.makedirs(temp_dir, exist_ok=True)
MakeDirs ==
    /\ pc = "makedirs"
    /\ stages_run' = Append(stages_run, "makedirs")
    /\ \E ok \in BOOLEAN :
        IF ok
        THEN /\ temp_exists' = temp_exists \cup {session_id}
             /\ pc' = "download"
             /\ UNCHANGED error
        ELSE /\ Fail("makedirs")
             /\ UNCHANGED temp_exists
    /\ UNCHANGED <<now, session_id, start_time, statVars, modelVars,
                   uploadVars, busVars, outcome, cleanups, stats_at_start, sessions_started, health, pose_results, probeVars>>

(* ----------------------- stage 1: input images ------------------------ *)
\* the objects an avatar or garment key can name in the uploads bucket
SampleImages ==
    { Image(1024, "JPEG", 256, 256),
      Image(max_image_size_mb * BytesPerMB, "PNG", 1024, 768),
      Image(max_image_size_mb * BytesPerMB + 1, "JPEG", 1024, 768),
      Image(2048, "GIF", 1024, 768),
      Image(2048, "UNDECODABLE", 0, 0),
      Image(2048, "WEBP", 255, 256),
      Image(2048, "JPEG", 256, 255) }
\* a key that names no object: download_file raises
MissingObject == [size |-> 0, format |-> "MISSING", width |-> 0, height |-> 0]

\* ValidateImage as it would be with `>=` in the size test
ValidateImageSizeInclusive(img) ==
    IF img.size >= max_image_size_mb * BytesPerMB THEN "too_large"
    ELSE IF img.format = "UNDECODABLE" THEN "cannot_open"
    ELSE IF img.format \notin {"JPEG", "PNG", "WEBP"} THEN "unsupported_format"
    ELSE IF img.width < MinDimension \/ img.height < MinDimension THEN "too_small"
    ELSE "ok"

\* _validate_image: "ok", or the check that raised, in the order of the code.
\* file_size_mb = size / (1024 * 1024) is compared as a real number, so
\* file_size_mb > max_image_size_mb exactly when size > max_image_size_mb * 1024 * 1024.
ValidateImage(img) ==
    IF img.size > max_image_size_mb * BytesPerMB THEN "too_large"
    ELSE IF img.format = "UNDECODABLE" THEN "cannot_open"
    ELSE IF img.format \notin {"JPEG", "PNG", "WEBP"} THEN "unsupported_format"
    ELSE IF img.width < MinDimension \/ img.height < MinDimension THEN "too_small"
    ELSE "ok"

\* _download_input_images: "ok" or the error it re-raises
DownloadResult(avatar, garment) ==
    IF avatar = MissingObject \/ garment = MissingObject THEN "download"
    ELSE IF ValidateImage(avatar) # "ok" \/ ValidateImage(garment) # "ok" THEN "validation"
    ELSE "ok"

\* lines 197-199: Step 1
DownloadInputImages ==
    /\ pc = "download"
    /\ stages_run' = Append(stages_run, "download")
    /\ \E avatar \in SampleImages \cup {MissingObject},
          garment \in SampleImages \cup {MissingObject} :
        LET r == DownloadResult(avatar, garment) IN
        IF r = "ok"
        THEN pc' = "pose" /\ UNCHANGED error
        ELSE Fail(r)
    /\ UNCHANGED <<now, session_id, start_time, statVars, modelVars, temp_exists,
                   uploadVars, busVars, outcome, cleanups, stats_at_start, sessions_started, health, pose_results, probeVars>>

(* ----------------------- stage 2: pose estimation --------------------- *)
\* lines 310-316: the flags of the estimate the placeholder returns
\* (confidence in hundredths; the joints and the box are left out)
PlaceholderPose == [person_detected |-> TRUE, confidence |-> 85]

\* the flags an estimator standing in for the placeholder may report
PoseEstimates == [person_detected : BOOLEAN, confidence : {0, 85}]

\* line 202: Step 2 with an estimator that returns one of estimates;
\* cv2.imread may fail to decode the file
EstimatePose(estimates) ==
    /\ pc = "pose"
    /\ stages_run' = Append(stages_run, "pose")
    /\ \E ok \in BOOLEAN :
        IF ok
        THEN /\ \E p \in estimates : pose_results' = <<p>>
             /\ pc' = "fit"
             /\ UNCHANGED error
        ELSE /\ Fail("pose")
             /\ UNCHANGED pose_results
    /\ UNCHANGED <<now, session_id, start_time, statVars, modelVars, temp_exists,
                   uploadVars, busVars, outcome, cleanups, stats_at_start, sessions_started,
                   health, probeVars>>

\* Step 2 as the source has it
EstimatePoseRomp == EstimatePose({PlaceholderPose})

\* Step 2 with any estimator behind _estimate_pose_romp
EstimatePoseAny == EstimatePose(PoseEstimates)

(* ------------------- model cache: _load_smpl_models ------------------- *)
\* DownloadModels as it would be without the os.path.exists test
RECURSIVE DownloadModelsNoExistsCheck(_, _, _, _)
DownloadModelsNoExistsCheck(i, disk, unavailable, calls) ==
    IF i > Len(ModelFileList)
    THEN [disk |-> disk, calls |-> calls, raised |-> FALSE]
    ELSE LET f == ModelFileList[i] IN
         IF f \in unavailable
         THEN [disk |-> disk, calls |-> Append(calls, <<f, FALSE>>), raised |-> TRUE]
         ELSE DownloadModelsNoExistsCheck(i + 1, disk \cup {f}, unavailable,
                                         Append(calls, <<f, TRUE>>))

\* The for-loop of _load_smpl_models from file i on.  disk: the model files
\* present locally; unavailable: the files whose download_file would raise
\* now; calls: the download_file calls made so far, <<file, succeeded>>.
\* A download that raises leaves no local file.
RECURSIVE DownloadModels(_, _, _, _)
DownloadModels(i, disk, unavailable, calls) ==
    IF i > Len(ModelFileList)
    THEN [disk |-> disk, calls |-> calls, raised |-> FALSE]
    ELSE LET f == ModelFileList[i] IN
         IF f \in disk
         THEN DownloadModels(i + 1, disk, unavailable, calls)
         ELSE IF f \in unavailable
         THEN [disk |-> disk, calls |-> Append(calls, <<f, FALSE>>), raised |-> TRUE]
         ELSE DownloadModels(i + 1, disk \cup {f}, unavailable,
                             Append(calls, <<f, TRUE>>))

\* bool(self._smpl_models): a dict is true when it is not empty
ModelsLoaded(models) == DOMAIN models # {}

\* LoadSmplModels as it would be if self._smpl_models were assigned before
\* the download loop
LoadSmplModelsCacheBeforeDownload(models, disk, unavailable) ==
    IF DOMAIN models # {}
    THEN [models |-> models, disk |-> disk, raised |-> FALSE,
          entry |-> [cached |-> TRUE, calls |-> <<>>, raised |-> FALSE]]
    ELSE LET d == DownloadModels(1, disk, unavailable, <<>>) IN
         [models |-> ModelHandles, disk |-> d.disk, raised |-> d.raised,
          entry |-> [cached |-> FALSE, calls |-> d.calls, raised |-> d.raised]]

\* _load_smpl_models with the asset store refusing the files in unavailable:
\* the cache, the disk and the log entry after the call, and whether it raised
LoadSmplModels(models, disk, unavailable) ==
    IF ModelsLoaded(models)
    THEN [models |-> models, disk |-> disk, raised |-> FALSE,
          entry |-> [cached |-> TRUE, calls |-> <<>>, raised |-> FALSE]]
    ELSE LET d == DownloadModels(1, disk, unavailable, <<>>) IN
         [models |-> IF d.raised THEN models ELSE ModelHandles,
          disk |-> d.disk, raised |-> d.raised,
          entry |-> [cached |-> FALSE, calls |-> d.calls, raised |-> d.raised]]

(* ------------------------ stage 3: mesh fitting ----------------------- *)
\* FitBodyMesh as it would be if it refused an estimate without a person
FitBodyMeshRequiresPerson ==
    /\ pc = "fit"
    /\ stages_run' = Append(stages_run, "fit")
    /\ IF ~pose_results[1].person_detected
       THEN /\ Fail("model_load")
            /\ UNCHANGED modelVars
       ELSE \E unavailable \in SUBSET ModelFiles :
            LET r == LoadSmplModels(smpl_models, model_files, unavailable) IN
            /\ smpl_models' = r.models
            /\ model_files' = r.disk
            /\ load_log' = Append(load_log, r.entry)
            /\ IF r.raised
               THEN Fail("model_load")
               ELSE pc' = "generate" /\ UNCHANGED error
    /\ UNCHANGED <<now, session_id, start_time, statVars, temp_exists,
                   uploadVars, busVars, outcome, cleanups, stats_at_start, sessions_started,
                   health, pose_results, probeVars>>

\* line 205: Step 3; _fit_body_mesh calls _load_smpl_models first and reads
\* nothing of pose_results
FitBodyMesh ==
    /\ pc = "fit"
    /\ stages_run' = Append(stages_run, "fit")
    /\ \E unavailable \in SUBSET ModelFiles :
        LET r == LoadSmplModels(smpl_models, model_files, unavailable) IN
        /\ smpl_models' = r.models
        /\ model_files' = r.disk
        /\ load_log' = Append(load_log, r.entry)
        /\ IF r.raised
           THEN Fail("model_load")
           ELSE pc' = "generate" /\ UNCHANGED error
    /\ UNCHANGED <<now, session_id, start_time, statVars, temp_exists,
                   uploadVars, busVars, outcome, cleanups, stats_at_start, sessions_started, health, pose_results, probeVars>>

(* -------------------- stage 4: guidance assets ------------------------ *)
\* lines 208-210: Step 4; reading the avatar or writing any asset may fail
GenerateGuidanceAssets ==
    /\ pc = "generate"
    /\ stages_run' = Append(stages_run, "generate")
    /\ \E ok \in BOOLEAN :
        IF ok
        THEN pc' = "upload" /\ UNCHANGED error
        ELSE Fail("generate")
    /\ UNCHANGED <<now, session_id, start_time, statVars, modelVars, temp_exists,
                   uploadVars, busVars, outcome, cleanups, stats_at_start, sessions_started, health, pose_results, probeVars>>

(* --------------------------- stage 5: upload -------------------------- *)
\* S3Key as it would be without the clock reading
S3KeyNoTimestamp(asset_type, sid, timestamp, local_path) ==
    <<asset_type, "/", sid, "-", 0, ".", local_path[Len(local_path)]>>

\* S3Key as it would be with one common prefix instead of the asset kind
S3KeyCommonPrefix(asset_type, sid, timestamp, local_path) ==
    <<"guidance", "/", sid, "-", timestamp, ".", local_path[Len(local_path)]>>

\* line 432: f'{asset_type}/{session_id}-{timestamp}.{local_path.split(".")[-1]}'
S3Key(asset_type, sid, timestamp, local_path) ==
    <<asset_type, "/", sid, "-", timestamp, ".", local_path[Len(local_path)]>>

\* lines 429-443: one iteration of the loop of _upload_guidance_assets, for
\* the next asset of guidance_assets; the clock is read in every iteration
UploadGuidanceAsset ==
    /\ pc = "upload"
    /\ LET i == Len(s3_keys) + 1
           asset_type == AssetOrder[i]
           s3_key == S3Key(asset_type, session_id, now, AssetFile[asset_type])
       IN
       /\ stages_run' = IF i = 1 THEN Append(stages_run, "upload") ELSE stages_run
       /\ \E ok \in BOOLEAN :
           IF ok
           THEN /\ guidance_bucket' = guidance_bucket \cup {s3_key}
                /\ s3_keys' = Append(s3_keys, s3_key)
                /\ overwritten' = IF s3_key \in guidance_bucket
                                  THEN Append(overwritten, s3_key)
                                  ELSE overwritten
                /\ pc' = IF i = Len(AssetOrder) THEN "publish" ELSE "upload"
                /\ UNCHANGED error
           ELSE /\ Fail("upload")
                /\ UNCHANGED uploadVars
    /\ UNCHANGED <<now, session_id, start_time, statVars, modelVars, temp_exists,
                   busVars, outcome, cleanups, stats_at_start, sessions_started, health, pose_results, probeVars>>

\* lines 422-427: _upload_guidance_assets(session_id, guidance_assets) called
\* on its own with the five generated assets; the call has returned when pc
\* is "publish" and has raised when pc is "count_error"
UploadCall ==
    /\ pc \in {"idle", "publish", "count_error"}
    /\ sessions_started < MaxSessions
    /\ \E sid \in SessionIds : session_id' = sid
    /\ sessions_started' = sessions_started + 1
    /\ start_time' = now
    /\ pc' = "upload"
    /\ s3_keys' = <<>>
    /\ overwritten' = <<>>
    /\ stages_run' = <<>>
    /\ error' = "none"
    /\ UNCHANGED <<now, statVars, modelVars, temp_exists, guidance_bucket, busVars, outcome,
                   cleanups, stats_at_start, health, pose_results, probeVars>>

(* ---------------------- stage 6: completion event --------------------- *)
\* what a put_events call can do: accept the entry, answer with
\* FailedEntryCount > 0, or raise
PutEventsOutcomes == {"accepted", "failed_entry", "raised"}

\* lines 494-500: what _publish_completion_event logs about the call; a
\* FailedEntryCount > 0 raises inside the try and is logged by its except-clause
CompletionLogged(r) == IF r = "accepted" THEN "published" ELSE "failed"

\* lines 518-522: what _publish_error_event logs about the call; the response
\* is not read, so only an exception of put_events reaches the except-clause
ErrorEventLogged(r) == IF r = "raised" THEN "failed" ELSE "published"

\* PublishCompletionEvent as it would be if processed_count were incremented
\* before the event is published
PublishCompletionEventCountsFirst ==
    /\ pc = "publish"
    /\ stages_run' = Append(stages_run, "publish")
    /\ processed_count' = processed_count + 1
    /\ \E r \in PutEventsOutcomes :
        /\ put_events' = Append(put_events, [type |-> "completion", response |-> r,
                                             logged |-> CompletionLogged(r)])
        /\ IF r = "accepted"
           THEN pc' = "success_metrics" /\ UNCHANGED error
           ELSE Fail("publish")
    /\ UNCHANGED <<now, session_id, start_time, error_count, last_activity, modelVars,
                   temp_exists, uploadVars, metric_calls, outcome, cleanups, stats_at_start,
                   sessions_started, health, pose_results, probeVars>>

\* line 216: Step 6; _publish_completion_event raises unless the entry is accepted
PublishCompletionEvent ==
    /\ pc = "publish"
    /\ stages_run' = Append(stages_run, "publish")
    /\ \E r \in PutEventsOutcomes :
        /\ put_events' = Append(put_events, [type |-> "completion", response |-> r,
                                             logged |-> CompletionLogged(r)])
        /\ IF r = "accepted"
           THEN pc' = "count_success" /\ UNCHANGED error
           ELSE Fail("publish")
    /\ UNCHANGED <<now, session_id, start_time, statVars, modelVars, temp_exists,
                   uploadVars, metric_calls, outcome, cleanups, stats_at_start, sessions_started, health, pose_results, probeVars>>

(* ------------------------------ telemetry ----------------------------- *)
\* SendMetrics as it would be without its except-clause
SendMetricsRaising(metric_name, delivered) ==
    [call |-> [name |-> metric_name, delivered |-> delivered], raised |-> ~delivered]

\* _send_metrics: one put_metric_data call; delivered says whether the
\* transport took it.  The except-clause logs a transport failure, so the
\* call never raises to process_image.
SendMetrics(metric_name, delivered) ==
    [call |-> [name |-> metric_name, delivered |-> delivered], raised |-> FALSE]

\* PublishErrorEventCall as it would be if a put_events exception escaped
PublishErrorEventCallEscalates(r) ==
    [call |-> [type |-> "error", response |-> r, logged |-> ErrorEventLogged(r)],
     raised |-> (r = "raised")]

\* _publish_error_event: one put_events call with outcome r.  The response is
\* not inspected and the except-clause logs an exception, so the call never
\* raises to process_image.
PublishErrorEventCall(r) ==
    [call |-> [type |-> "error", response |-> r, logged |-> ErrorEventLogged(r)],
     raised |-> FALSE]

(* ----------------------- process_image: success ----------------------- *)
\* CountSuccess as it would be with the increment left out
CountSuccessSkipped ==
    /\ pc = "count_success"
    /\ last_activity' = now
    /\ pc' = "success_metrics"
    /\ UNCHANGED <<now, session_id, start_time, processed_count, error_count, modelVars,
                   temp_exists, uploadVars, busVars, stages_run, error, outcome, cleanups,
                   stats_at_start, sessions_started, health, pose_results, probeVars>>

\* lines 218-220
CountSuccess ==
    /\ pc = "count_success"
    /\ processed_count' = processed_count + 1
    /\ last_activity' = now
    /\ pc' = "success_metrics"
    /\ UNCHANGED <<now, session_id, start_time, error_count, modelVars, temp_exists,
                   uploadVars, busVars, stages_run, error, outcome, cleanups, stats_at_start,
                   sessions_started, health, pose_results, probeVars>>

\* lines 225-234: the two success metrics, then the return statement
SendSuccessMetrics ==
    /\ pc = "success_metrics"
    /\ \E d1 \in BOOLEAN, d2 \in BOOLEAN :
        LET m1 == SendMetrics("SMPL.ProcessingSuccess", d1)
            m2 == SendMetrics("SMPL.ProcessingTime", d2)
        IN
        IF m1.raised
        THEN /\ metric_calls' = Append(metric_calls, m1.call)
             /\ Fail("metrics")
             /\ UNCHANGED outcome
        ELSE IF m2.raised
        THEN /\ metric_calls' = metric_calls \o <<m1.call, m2.call>>
             /\ Fail("metrics")
             /\ UNCHANGED outcome
        ELSE /\ metric_calls' = metric_calls \o <<m1.call, m2.call>>
             /\ outcome' = "success"
             /\ pc' = "cleanup"
             /\ UNCHANGED error
    /\ UNCHANGED <<now, session_id, start_time, statVars, modelVars, temp_exists,
                   uploadVars, put_events, stages_run, cleanups, stats_at_start, sessions_started,
                   health, pose_results, probeVars>>

(* ------------------- process_image: except Exception ------------------ *)
\* CountError as it would be with the increment left out
CountErrorForgotten ==
    /\ pc = "count_error"
    /\ pc' = "error_metric"
    /\ UNCHANGED <<now, session_id, start_time, statVars,
                   modelVars, temp_exists, uploadVars, busVars, stages_run, error,
                   outcome, cleanups, stats_at_start, sessions_started, health, pose_results, probeVars>>

\* CountError as it would be if the except-clause also emptied the model cache
CountErrorDropsCache ==
    /\ pc = "count_error"
    /\ error_count' = error_count + 1
    /\ smpl_models' = NoModels
    /\ pc' = "error_metric"
    /\ UNCHANGED <<now, session_id, start_time, processed_count, last_activity,
                   model_files, load_log, temp_exists, uploadVars, busVars, stages_run, error,
                   outcome, cleanups, stats_at_start, sessions_started, health, pose_results,
                   probeVars>>

\* line 237
CountError ==
    /\ pc = "count_error"
    /\ error_count' = error_count + 1
    /\ pc' = "error_metric"
    /\ UNCHANGED <<now, session_id, start_time, processed_count, last_activity,
                   modelVars, temp_exists, uploadVars, busVars, stages_run, error,
                   outcome, cleanups, stats_at_start, sessions_started, health, pose_results, probeVars>>

\* SendErrorMetric as it would be if a metric the transport refused ended
\* the except-clause
SendErrorMetricUnguarded ==
    /\ pc = "error_metric"
    /\ \E d \in BOOLEAN :
        LET m == SendMetrics("SMPL.ProcessingError", d) IN
        /\ metric_calls' = Append(metric_calls, m.call)
        /\ IF ~d
           THEN error' = "metrics" /\ outcome' = "failure" /\ pc' = "cleanup"
           ELSE pc' = "error_event" /\ UNCHANGED <<error, outcome>>
    /\ UNCHANGED <<now, session_id, start_time, statVars, modelVars, temp_exists,
                   uploadVars, put_events, stages_run, cleanups, stats_at_start, sessions_started,
                   health, pose_results, probeVars>>

\* line 242; an exception leaving the except-clause replaces the one in flight
SendErrorMetric ==
    /\ pc = "error_metric"
    /\ \E d \in BOOLEAN :
        LET m == SendMetrics("SMPL.ProcessingError", d) IN
        /\ metric_calls' = Append(metric_calls, m.call)
        /\ IF m.raised
           THEN error' = "metrics" /\ outcome' = "failure" /\ pc' = "cleanup"
           ELSE pc' = "error_event" /\ UNCHANGED <<error, outcome>>
    /\ UNCHANGED <<now, session_id, start_time, statVars, modelVars, temp_exists,
                   uploadVars, put_events, stages_run, cleanups, stats_at_start, sessions_started,
                   health, pose_results, probeVars>>

\* PublishErrorEvent as it would be if a publish that failed were tried again
PublishErrorEventRetry ==
    /\ pc = "error_event"
    /\ \E r \in PutEventsOutcomes, r2 \in PutEventsOutcomes :
        put_events' =
            IF r = "accepted"
            THEN Append(put_events, PublishErrorEventCall(r).call)
            ELSE put_events \o <<PublishErrorEventCall(r).call,
                                 PublishErrorEventCall(r2).call>>
    /\ outcome' = "failure"
    /\ pc' = "cleanup"
    /\ UNCHANGED <<now, session_id, start_time, statVars, modelVars, temp_exists,
                   uploadVars, metric_calls, stages_run, error, cleanups,
                   stats_at_start, sessions_started, health, pose_results, probeVars>>

\* lines 245-247: publish the error event, then re-raise
PublishErrorEvent ==
    /\ pc = "error_event"
    /\ \E r \in PutEventsOutcomes :
        LET p == PublishErrorEventCall(r) IN
        /\ put_events' = Append(put_events, p.call)
        /\ error' = IF p.raised THEN "error_event" ELSE error
    /\ outcome' = "failure"
    /\ pc' = "cleanup"
    /\ UNCHANGED <<now, session_id, start_time, statVars, modelVars, temp_exists,
                   uploadVars, metric_calls, stages_run, cleanups, stats_at_start, sessions_started,
                   health, pose_results, probeVars>>

(* ---------------------- process_image: finally ------------------------ *)
\* _cleanup_temp_files with shutil.rmtree succeeding or raising: the
\* directories that exist after the call.  An rmtree that raises is logged
\* and leaves the directory.
CleanupTempFiles(dirs, sid, rmtree_ok) ==
    IF sid \notin dirs THEN [dirs |-> dirs, did |-> "absent"]
    ELSE IF rmtree_ok THEN [dirs |-> dirs \ {sid}, did |-> "removed"]
    ELSE [dirs |-> dirs, did |-> "rmtree_raised"]

\* Cleanup as it would be if _cleanup_temp_files were called at the end of
\* the try-block instead of in the finally-clause
CleanupOnSuccessOnly ==
    /\ pc = "cleanup"
    /\ \E rmtree_ok \in BOOLEAN :
        LET c == CleanupTempFiles(temp_exists, session_id, rmtree_ok) IN
        IF outcome = "success"
        THEN /\ temp_exists' = c.dirs
             /\ cleanups' = Append(cleanups, c.did)
        ELSE UNCHANGED <<temp_exists, cleanups>>
    /\ pc' = IF outcome = "exit" THEN "exited" ELSE "done"
    /\ UNCHANGED <<now, session_id, start_time, statVars, modelVars, uploadVars,
                   busVars, stages_run, error, outcome, stats_at_start,
                   sessions_started, health, pose_results, probeVars>>

\* lines 248-250, then the return or raise reaches the caller; a SystemExit
\* in flight is caught nowhere in main and ends the process
Cleanup ==
    /\ pc = "cleanup"
    /\ \E rmtree_ok \in BOOLEAN :
        LET c == CleanupTempFiles(temp_exists, session_id, rmtree_ok) IN
        /\ temp_exists' = c.dirs
        /\ cleanups' = Append(cleanups, c.did)
    /\ pc' = IF outcome = "exit" THEN "exited" ELSE "done"
    /\ UNCHANGED <<now, session_id, start_time, statVars, modelVars, uploadVars,
                   busVars, stages_run, error, outcome, stats_at_start,
                   sessions_started, health, pose_results, probeVars>>

(* -------------------------- get_health_status ------------------------- *)
\* HealthStatus as it would be if models_loaded reported the ROMP model
\* (self._romp_model, which nothing ever sets)
HealthStatusRompFlag ==
    [status |-> "healthy",
     processed_count |-> processed_count,
     error_count |-> error_count,
     last_activity |-> last_activity,
     models_loaded |-> FALSE]

\* the dict get_health_status returns (uptime, memory and cpu readings left out)
HealthStatus ==
    [status |-> "healthy",
     processed_count |-> processed_count,
     error_count |-> error_count,
     last_activity |-> last_activity,
     models_loaded |-> ModelsLoaded(smpl_models)]

\* the caller reads the health status between invocations
GetHealthStatus ==
    /\ pc \in {"idle", "done"}
    /\ health' = HealthStatus
    /\ UNCHANGED <<pc, now, session_id, start_time, statVars, modelVars, temp_exists,
                   uploadVars, busVars, stages_run, error, outcome, cleanups, stats_at_start,
                   sessions_started, pose_results, probeVars>>

(* ------------------------------- signals ------------------------------ *)
\* the positions inside the try-statement of process_image before its
\* finally-clause: the seven stages, the success tail and the except-clause
ActivePcs == {"makedirs", "download", "pose", "fit", "generate", "upload", "publish"}
TryPcs ==
    ActivePcs \cup {"count_success", "success_metrics",
                    "count_error", "error_metric", "error_event"}

\* Signal as it would be if the handler ended the process at once (os._exit)
SignalHardExit ==
    /\ pc # "exited"
    /\ signalled_at' = IF signalled_at = "none" THEN pc ELSE signalled_at
    /\ pc' = "exited"
    /\ IF pc \in TryPcs \cup {"cleanup"}
       THEN error' = "SystemExit" /\ outcome' = "exit"
       ELSE UNCHANGED <<error, outcome>>
    /\ UNCHANGED <<now, session_id, start_time, statVars, modelVars, temp_exists, uploadVars,
                   busVars, stages_run, cleanups, stats_at_start, sessions_started, health,
                   pose_results, image, verdict, containerVars>>

\* lines 570-573: SIGTERM or SIGINT is handled in the main thread wherever it
\* is; sys.exit(0) raises SystemExit there.  Inside the try-statement it
\* passes `except Exception` and runs the finally-clause; inside
\* _cleanup_temp_files it passes that `except Exception` too and stops the
\* rmtree wherever it was; outside process_image it ends the process.
\* Before line 190 (pc = "makedirs", try not yet entered) no finally-clause runs.
Signal ==
    /\ pc # "exited"
    /\ signalled_at' = IF signalled_at = "none" THEN pc ELSE signalled_at
    /\ \/ /\ pc \in TryPcs
          /\ pc' = "cleanup"
          /\ error' = "SystemExit"
          /\ outcome' = "exit"
          /\ UNCHANGED <<temp_exists, cleanups>>
       \/ /\ pc = "makedirs"
          /\ pc' = "exited"
          /\ error' = "SystemExit"
          /\ outcome' = "exit"
          /\ UNCHANGED <<temp_exists, cleanups>>
       \/ /\ pc = "cleanup"
          /\ \E removed \in BOOLEAN :
                temp_exists' = IF removed THEN temp_exists \ {session_id} ELSE temp_exists
          /\ cleanups' = Append(cleanups, "interrupted")
          /\ pc' = "exited"
          /\ error' = "SystemExit"
          /\ outcome' = "exit"
       \/ /\ pc \in {"idle", "done"}
          /\ pc' = "exited"
          /\ UNCHANGED <<error, outcome, temp_exists, cleanups>>
    /\ UNCHANGED <<now, session_id, start_time, statVars, modelVars, uploadVars,
                   busVars, stages_run, stats_at_start, sessions_started, health,
                   pose_results, image, verdict, containerVars>>

(* ------------------------ _validate_image alone ----------------------- *)
\* the files a direct call of _validate_image is given
ProbeSizes ==
    {0, 1024, max_image_size_mb * BytesPerMB - 1, max_image_size_mb * BytesPerMB,
     max_image_size_mb * BytesPerMB + 1, 52533658}
ProbeFormats == {"JPEG", "PNG", "WEBP", "GIF", "BMP", "UNDECODABLE"}
ProbeDimensions == {200, MinDimension - 1, MinDimension, 1024}
ProbeImages ==
    {Image(size, format, width, height) :
        size \in ProbeSizes, format \in ProbeFormats,
        width \in ProbeDimensions, height \in ProbeDimensions}

\* a processor that is given one file to validate
InitValidate ==
    /\ InitWorker
    /\ ContainerComplete
    /\ image \in ProbeImages

\* self._validate_image(image_path, ...) called on that file
ValidateImageCall ==
    /\ verdict = "pending"
    /\ verdict' = ValidateImage(image)
    /\ UNCHANGED <<pc, now, session_id, start_time, statVars, modelVars, temp_exists,
                   uploadVars, busVars, stages_run, error, outcome, cleanups, stats_at_start,
                   sessions_started, health, pose_results, signalled_at, image,
                   containerVars>>

(* ---------------------------- healthcheck.py -------------------------- *)
\* check_dependencies from package i on: False at the first package whose
\* __import__ raises ImportError, True after the last one
RECURSIVE CheckDependencies(_, _)
CheckDependencies(i, packages) ==
    IF i > Len(RequiredPackageList) THEN TRUE
    ELSE IF RequiredPackageList[i] \notin packages THEN FALSE
    ELSE CheckDependencies(i + 1, packages)

\* check_model_paths from path i on: False at the first path that does not exist
RECURSIVE CheckModelPaths(_, _)
CheckModelPaths(i, paths) ==
    IF i > Len(ModelPathList) THEN TRUE
    ELSE IF ModelPathList[i] \notin paths THEN FALSE
    ELSE CheckModelPaths(i + 1, paths)

\* HealthcheckExit as it would be with `or` between the two checks
HealthcheckExitEitherCheck(packages, paths) ==
    IF CheckDependencies(1, packages) \/ CheckModelPaths(1, paths) THEN 0 ELSE 1

\* lines 41-47: the argument of sys.exit
HealthcheckExit(packages, paths) ==
    IF CheckDependencies(1, packages) /\ CheckModelPaths(1, paths) THEN 0 ELSE 1

\* a container with any of the packages and directories missing
InitHealthcheck ==
    /\ InitWorker
    /\ image = Image(1024, "JPEG", 256, 256)
    /\ importable \in SUBSET RequiredPackages
    /\ existing_paths \in SUBSET ModelPaths

\* python healthcheck.py runs to its sys.exit
HealthcheckMain ==
    /\ exit_status = <<>>
    /\ exit_status' = <<HealthcheckExit(importable, existing_paths)>>
    /\ UNCHANGED <<pc, now, session_id, start_time, statVars, modelVars, temp_exists,
                   uploadVars, busVars, stages_run, error, outcome, cleanups, stats_at_start,
                   sessions_started, health, pose_results, signalled_at, image, verdict,
                   importable, existing_paths>>

(* ------------------------------ the system ---------------------------- *)
\* the worker and its caller
Worker ==
    \/ ProcessImageBegin
    \/ MakeDirs
    \/ DownloadInputImages
    \/ EstimatePoseRomp
    \/ FitBodyMesh
    \/ GenerateGuidanceAssets
    \/ UploadGuidanceAsset
    \/ PublishCompletionEvent
    \/ CountSuccess
    \/ SendSuccessMetrics
    \/ CountError
    \/ SendErrorMetric
    \/ PublishErrorEvent
    \/ Cleanup
    \/ GetHealthStatus

Next ==
    \/ Tick
    \/ Worker

\* the worker with the wall clock running
Spec == Init /\ [][Next]_vars

\* the runs in which no second boundary passes; no step of the worker reads
\* the clock except to copy it into start_time, last_activity and the upload keys
SpecSameSecond == Init /\ [][Worker]_vars

\* _upload_guidance_assets called repeatedly, with the wall clock running
SpecUpload == Init /\ [][Tick \/ UploadCall \/ UploadGuidanceAsset]_vars

\* the worker with the shutdown signals of main
SpecSignal == Init /\ [][Worker \/ Signal]_vars

\* the worker with any pose estimator in the place of the placeholder
WorkerAnyPose ==
    \/ ProcessImageBegin
    \/ MakeDirs
    \/ DownloadInputImages
    \/ EstimatePoseAny
    \/ FitBodyMesh
    \/ GenerateGuidanceAssets
    \/ UploadGuidanceAsset
    \/ PublishCompletionEvent
    \/ CountSuccess
    \/ SendSuccessMetrics
    \/ CountError
    \/ SendErrorMetric
    \/ PublishErrorEvent
    \/ Cleanup
    \/ GetHealthStatus
SpecAnyPose == Init /\ [][WorkerAnyPose]_vars

\* _validate_image called on one file
SpecValidate == InitValidate /\ [][ValidateImageCall]_vars

\* healthcheck.py run once in a container
SpecHealthcheck == InitHealthcheck /\ [][HealthcheckMain]_vars

(* ------------------------------ observers ----------------------------- *)
\* process_image has returned a result to its caller
Returned == pc = "done" /\ outcome = "success"
\* process_image has raised to its caller
Raised == pc = "done" /\ outcome = "failure"

\* the exceptions each stage can raise
StageErrors ==
    [makedirs |-> {"makedirs"}, download |-> {"download", "validation"},
     pose |-> {"pose"}, fit |-> {"model_load"}, generate |-> {"generate"},
     upload |-> {"upload"}, publish |-> {"publish"}]

IsPrefix(s, t) == Len(s) <= Len(t) /\ \A i \in 1..Len(s) : s[i] = t[i]
Last(s) == s[Len(s)]

\* the put_events calls of this invocation that carried an event of this type
EventCalls(type) == {i \in 1..Len(put_events) : put_events[i].type = type}
\* those the event bus accepted: the events of this type that were emitted
EventsEmitted(type) == {i \in EventCalls(type) : put_events[i].response = "accepted"}

\* the download_file calls of _load_smpl_models that fetched file f
Fetches(f) ==
    {<<i, j>> \in (1..Len(load_log)) \X (1..Len(ModelFileList)) :
        j <= Len(load_log[i].calls) /\ load_log[i].calls[j] = <<f, TRUE>>}
\* the _load_smpl_models calls that went to the asset store
FetchingCalls == {i \in 1..Len(load_log) : load_log[i].calls # <<>>}

\* the keys the guidance bucket held when the running upload call began
BucketAtCallStart ==
    guidance_bucket \
        ({s3_keys[i] : i \in 1..Len(s3_keys)} \ {overwritten[i] : i \in 1..Len(overwritten)})

(* ------------------------------- claims ------------------------------- *)
\* C1 (as stated): whenever process_image has raised, exactly one failure
\* event has been emitted for the session, whatever the event bus answered.
C1_ExactlyOneFailureEventEmitted ==
    Raised => Cardinality(EventsEmitted("error")) = 1

\* C1 (amended): whenever process_image has raised, exactly one failure-event
\* put_events call has been made for the session, so at most one failure
\* event has been emitted, and none when the bus did not accept the entry.
C1_ExactlyOneFailureEventAttempt ==
    Raised =>
        /\ Cardinality(EventCalls("error")) = 1
        /\ Cardinality(EventsEmitted("error")) <= 1

\* C1 witness: process_image raised after a completion-publish failure, the
\* error metric was not delivered and the bus did not take the failure event
C1_Witness ==
    /\ Raised
    /\ error = "publish"
    /\ \E i \in 1..Len(metric_calls) : ~metric_calls[i].delivered
    /\ EventCalls("error") # {}
    /\ EventsEmitted("error") = {}

\* C2: no invocation both publishes a completion event (or returns success)
\* and reaches the failure handler: once the completion event is accepted,
\* no exception is in flight, no failure event is attempted and the outcome
\* is never a raise; a success return has made no failure-event call.
C2_NeverSuccessAndFailure ==
    /\ EventsEmitted("completion") # {} =>
            /\ error = "none"
            /\ EventCalls("error") = {}
            /\ outcome # "failure"
    /\ outcome = "success" =>
            /\ EventCalls("error") = {}
            /\ Cardinality(EventsEmitted("completion")) = 1

\* C2 witness: a success result returned although both success metrics and
\* the rmtree of the workspace failed after the completion event
C2_Witness ==
    /\ Returned
    /\ \A i \in 1..Len(metric_calls) : ~metric_calls[i].delivered
    /\ Len(metric_calls) = 2
    /\ cleanups = <<"rmtree_raised">>

\* C3 (as stated): after process_image returns or raises, the workspace
\* directory of the session does not exist.
C3_WorkspaceAbsentAfterExit ==
    pc = "done" => session_id \notin temp_exists

\* C3 (amended): on every exit path _cleanup_temp_files has run exactly once
\* when process_image returns or raises, and the workspace directory is
\* absent unless shutil.rmtree itself raised.
C3_CleanupRunsOnEveryExit ==
    pc = "done" =>
        /\ Len(cleanups) = 1
        /\ session_id \in temp_exists => cleanups[1] = "rmtree_raised"

\* C3 witness: an upload failure after two assets, and the workspace gone
C3_Witness ==
    /\ Raised
    /\ error = "upload"
    /\ Len(s3_keys) = 2
    /\ cleanups = <<"removed">>
    /\ session_id \notin temp_exists

\* C4: the stages of one invocation run in the fixed order, each at most
\* once and only after the previous one succeeded; the failing stage is the
\* last one run, and a success has run them all.
C4_StagesInOrderOnce ==
    /\ IsPrefix(stages_run, StageOrder)
    /\ error # "none" =>
            /\ stages_run # <<>>
            /\ error \in StageErrors[Last(stages_run)]
    /\ outcome = "success" => stages_run = StageOrder

\* C4 witness: mesh fitting failed and nothing ran after it
C4_Witness ==
    /\ Raised
    /\ error = "model_load"
    /\ stages_run = <<"makedirs", "download", "pose", "fit">>

\* C5: a failure in any active state takes the failure exit: the handler
\* steps are always able to run until Done is reached, no failure event is
\* attempted before the publishing step, and from then on to Done(failure)
\* exactly one attempt has been made, after every other event call of the
\* invocation.
C5_FailureExitFromEveryStage ==
    error # "none" =>
        /\ outcome # "success"
        /\ pc \in {"count_error", "error_metric", "error_event", "cleanup", "done"}
        /\ pc # "done" =>
                ENABLED (CountError \/ SendErrorMetric \/ PublishErrorEvent \/ Cleanup)
        /\ pc \in {"count_error", "error_metric", "error_event"} =>
                EventCalls("error") = {}
        /\ pc \in {"cleanup", "done"} =>
                /\ outcome = "failure"
                /\ EventCalls("error") = {Len(put_events)}

\* C5 witness: an upload failure at the last asset reached Done(failure)
\* with its failure event emitted
C5_Witness ==
    /\ Raised
    /\ error = "upload"
    /\ Len(s3_keys) = Len(AssetOrder) - 1
    /\ Cardinality(EventsEmitted("error")) = 1

\* C6: an invocation that returns success has added exactly 1 to
\* processed_count and nothing to error_count; one that raises has added
\* exactly 1 to error_count and nothing to processed_count.
C6_CountersPerOutcome ==
    /\ Returned =>
            /\ processed_count = stats_at_start.processed_count + 1
            /\ error_count = stats_at_start.error_count
    /\ Raised =>
            /\ error_count = stats_at_start.error_count + 1
            /\ processed_count = stats_at_start.processed_count

\* C6 witness: a second invocation raised after a first one had succeeded
C6_Witness ==
    /\ Raised
    /\ stats_at_start = [processed_count |-> 1, error_count |-> 0]
    /\ error_count = 1

\* C7: every invocation updates last_activity, on success and on failure:
\* when process_image has returned or raised, last_activity is not older
\* than the start of that invocation.
C7_LastActivityUpdatedOnBothOutcomes ==
    pc = "done" => last_activity >= start_time

\* C8 (as stated): at most one _load_smpl_models call of the process goes to
\* the asset store.
C8_FetchAtMostOnce ==
    Cardinality(FetchingCalls) <= 1

\* C8 (amended): every model artifact is fetched successfully at most once,
\* and after a _load_smpl_models call that populated the cache every later
\* call is served from the cache without a fetch and the handles stay the same.
C8_EachArtifactFetchedOnce ==
    /\ \A f \in ModelFiles : Cardinality(Fetches(f)) <= 1
    /\ \A i \in 1..Len(load_log) : \A j \in 1..Len(load_log) :
            (i < j /\ ~load_log[i].raised) =>
                load_log[j].cached /\ load_log[j].calls = <<>>
    /\ ModelsLoaded(smpl_models) => smpl_models = ModelHandles

\* C8 witness: a first acquisition failed after fetching one artifact, and a
\* second one fetched the rest and populated the cache
C8_Witness ==
    /\ Len(load_log) = 2
    /\ load_log[1].raised
    /\ load_log[1].calls = <<<<"basicModel_f", TRUE>>, <<"basicModel_m", FALSE>>>>
    /\ load_log[2].calls = <<<<"basicModel_m", TRUE>>, <<"basicModel_neutral", TRUE>>>>
    /\ ModelsLoaded(smpl_models)

\* C9: a model acquisition failure fails the session only: the cache stays
\* unpopulated and the session ends through the failure exit, and the next
\* _load_smpl_models call is not served from the cache but tries again.
C9_ModelLoadFailureIsPerSession ==
    /\ error = "model_load" =>
            /\ ~ModelsLoaded(smpl_models)
            /\ outcome # "success"
            /\ load_log # <<>> /\ Last(load_log).raised
    /\ \A i \in 1..Len(load_log) :
            (load_log[i].raised /\ i < Len(load_log)) =>
                ~load_log[i + 1].cached /\ load_log[i + 1].calls # <<>>

\* C9 witness: the session after a failed acquisition returned success with
\* the cache populated
C9_Witness ==
    /\ Returned
    /\ sessions_started = 2
    /\ Len(load_log) = 2
    /\ load_log[1].raised
    /\ ~load_log[2].raised
    /\ ModelsLoaded(smpl_models)

\* C10: when the failure-event publish itself fails, the error raised to the
\* caller is the one of the failing stage, error_count has grown by exactly
\* one, and _cleanup_temp_files has run before the caller sees the error.
C10_ErrorEventFailureNotEscalated ==
    (Raised /\ EventsEmitted("error") = {}) =>
        /\ error \in StageErrors[Last(stages_run)]
        /\ error_count = stats_at_start.error_count + 1
        /\ Len(cleanups) = 1

\* C10 witness: put_events raised while publishing the failure event of a
\* pose-estimation failure
C10_Witness ==
    /\ Raised
    /\ error = "pose"
    /\ \E i \in EventCalls("error") : put_events[i].response = "raised"

\* C11: a metrics transport failure never changes the session outcome: once
\* the completion event is accepted the invocation returns success with
\* processed_count incremented and both success metrics attempted, delivered
\* or not; on the failure path the error metric is attempted once and,
\* delivered or not, the failure-event attempt follows and the error raised
\* is the one of the failing stage.
C11_MetricsFailureKeepsOutcome ==
    /\ (pc = "done" /\ EventsEmitted("completion") # {}) =>
            /\ Returned
            /\ processed_count = stats_at_start.processed_count + 1
            /\ Len(metric_calls) = 2
    /\ (pc \in {"cleanup", "done"} /\ outcome = "failure") =>
            /\ Len(metric_calls) = 1
            /\ metric_calls[1].name = "SMPL.ProcessingError"
            /\ Cardinality(EventCalls("error")) = 1
            /\ error \in StageErrors[Last(stages_run)]

\* C11 witness: asset generation failed, the error metric was refused by the
\* transport, and the failure event was still emitted before the raise
C11_Witness ==
    /\ Raised
    /\ error = "generate"
    /\ metric_calls = <<[name |-> "SMPL.ProcessingError", delivered |-> FALSE]>>
    /\ Cardinality(EventsEmitted("error")) = 1

\* C12: partial asset sets never escape the workspace: when process_image
\* has raised, none of the keys it uploaded is in the guidance bucket, and a
\* result is returned only after all five assets were uploaded.
C12_FailedSessionLeavesNoAssets ==
    /\ Raised => \A i \in 1..Len(s3_keys) : s3_keys[i] \notin guidance_bucket
    /\ Returned => Len(s3_keys) = Len(AssetOrder)

\* C13: every success result carries exactly five uploaded keys, one for
\* each asset kind depth, normals, pose, segments, prompt in the order of the
\* generated asset set, every key is stored in the guidance bucket, and the
\* five keys are pairwise distinct.
C13_FiveDistinctKeysOnSuccess ==
    Returned =>
        /\ Len(s3_keys) = Len(AssetOrder)
        /\ \A i \in 1..Len(s3_keys) :
                /\ s3_keys[i][1] = AssetOrder[i]
                /\ s3_keys[i] \in guidance_bucket
        /\ \A i \in 1..Len(s3_keys) : \A j \in 1..Len(s3_keys) :
                i # j => s3_keys[i] # s3_keys[j]
        /\ {s3_keys[i][1] : i \in 1..Len(s3_keys)} = AssetKinds

\* C13 witness: a second invocation returned its five keys after a first one
\* had failed
C13_Witness ==
    /\ Returned
    /\ sessions_started = 2
    /\ stats_at_start.error_count = 1
    /\ Len(s3_keys) = 5
    /\ Cardinality(guidance_bucket) = 5

\* C14: each key of _upload_guidance_assets has the shape
\* kind/session_id-timestamp.ext, its timestamp is the clock value in whole
\* seconds read for that asset, and a key stored for the same session before
\* the second in which a later call started differs from every key of that call.
C14_KeyShapeAndDistinctAfterOneSecond ==
    /\ [](\A i \in 1..Len(s3_keys) :
            /\ s3_keys[i] = <<AssetOrder[i], "/", session_id, "-", s3_keys[i][5], ".",
                              AssetFile[AssetOrder[i]][2]>>
            /\ s3_keys[i][5] \in start_time..now
            /\ i > 1 => s3_keys[i - 1][5] <= s3_keys[i][5]
            /\ \A k \in BucketAtCallStart :
                    (k[3] = session_id /\ k[5] < s3_keys[1][5]) => s3_keys[i] # k)
    /\ [][Len(s3_keys') = Len(s3_keys) + 1 => s3_keys'[Len(s3_keys')][5] = now]_vars

\* C14 witness: a second call for the same session, one second after the
\* first, stored five more keys next to the five of the first call
C14_Witness ==
    /\ pc = "publish"
    /\ now = 1
    /\ Len(s3_keys) = 5
    /\ overwritten = <<>>
    /\ Cardinality({k \in BucketAtCallStart : k[3] = session_id /\ k[5] = 0}) = 5

\* C15: no key written by an attempt equals a key an earlier attempt for the
\* same session had stored, however little time passed between the attempts.
C15_NoKeyCollisionAcrossRetries ==
    overwritten = <<>>

\* C19: _validate_image rejects a file exactly when its size in bytes exceeds
\* max_image_size_mb * 1024 * 1024, or its format is not JPEG, PNG or WEBP, or
\* its width or height is below 256; a file of exactly the size limit and a
\* 256x256 JPEG are accepted, a 50.1MB file and a 200x200 image are rejected.
C19_ValidateImageRejectsExactly ==
    verdict # "pending" =>
        /\ verdict # "ok" <=>
                \/ image.size > 50 * 1024 * 1024
                \/ image.format \notin {"JPEG", "PNG", "WEBP"}
                \/ image.width < 256
                \/ image.height < 256
        /\ image = Image(50 * 1024 * 1024, "PNG", 1024, 1024) => verdict = "ok"
        /\ image = Image(1024, "JPEG", 256, 256) => verdict = "ok"
        /\ image.size = 52533658 => verdict # "ok"
        /\ (image.width = 200 /\ image.height = 200) => verdict # "ok"

\* C19 witness: a 256x256 JPEG of exactly 50 * 1024 * 1024 bytes was accepted
C19_Witness ==
    /\ verdict = "ok"
    /\ image = Image(52428800, "JPEG", 256, 256)

\* C16 (as stated): when a shutdown signal is handled while the session is
\* in an active pipeline state with its workspace created, exactly one cleanup
\* has run and the workspace is gone when the process has exited.
C16_WorkspaceRemovedBeforeExit ==
    (pc = "exited" /\ signalled_at \in ActivePcs \ {"makedirs"}) =>
        /\ Len(cleanups) = 1
        /\ session_id \notin temp_exists

\* C16 (amended): whenever process_image has been left or the process has
\* exited after the session's makedirs step, _cleanup_temp_files has been
\* started exactly once, also when a signal was handled in an active state;
\* the workspace is gone unless rmtree raised or a signal stopped the cleanup.
C16_CleanupStartedOnceBeforeExit ==
    /\ Len(cleanups) <= 1
    /\ (pc \in {"done", "exited"} /\ stages_run # <<>>) =>
            /\ Len(cleanups) = 1
            /\ session_id \in temp_exists =>
                    cleanups[1] \in {"rmtree_raised", "interrupted"}

\* C16 witness: a signal handled during the upload loop, after two assets;
\* the finally-clause removed the workspace and the process exited
C16_Witness ==
    /\ pc = "exited"
    /\ signalled_at = "upload"
    /\ Len(s3_keys) = 2
    /\ cleanups = <<"removed">>
    /\ session_id \notin temp_exists

\* C17: a shutdown signal does not interrupt a session that is mid-pipeline:
\* when the process has exited after a signal handled in an active state
\* past the creation of the workspace, the session has ended in success or failure with its terminal event sent
\* and one of the two counters incremented.
C17_SignalLetsSessionFinish ==
    (pc = "exited" /\ signalled_at \in ActivePcs \ {"makedirs"}) =>
        /\ outcome \in {"success", "failure"}
        /\ EventsEmitted("completion") # {} \/ EventCalls("error") # {}
        /\ processed_count + error_count =
                stats_at_start.processed_count + stats_at_start.error_count + 1

C20_HealthStatusIsPureRead ==
    /\ [](health # NoHealth =>
            /\ health.status = "healthy"
            /\ health.processed_count = processed_count
            /\ health.error_count = error_count
            /\ health.last_activity = last_activity
            /\ health.models_loaded <=>
                    (\E i \in 1..Len(load_log) : ~load_log[i].cached /\ ~load_log[i].raised)
            /\ health.models_loaded <=> (smpl_models = ModelHandles))
    /\ [][(health' # health /\ health' # NoHealth) =>
            UNCHANGED <<pc, statVars, modelVars, temp_exists, uploadVars, busVars,
                        sessions_started>>]_vars

\* C20 witness: after one success and one failure the status reports both
\* counters at 1 and the models loaded
C20_Witness ==
    /\ health # NoHealth
    /\ health.processed_count = 1
    /\ health.error_count = 1
    /\ health.models_loaded

\* C21: the health probe exits with status 0 exactly when every required
\* package is importable and the three required directories exist, and with
\* a non-zero status when any single one of them is missing.
C21_ProbeExitsZeroIffAllPresent ==
    exit_status # <<>> =>
        /\ exit_status[1] = 0 <=>
                /\ \A p \in RequiredPackages : p \in importable
                /\ {"/app/models/smpl", "/app/weights", "/app/configs"} \subseteq existing_paths
        /\ Cardinality(RequiredPackages \ importable)
                + Cardinality(ModelPaths \ existing_paths) = 1 => exit_status[1] # 0

\* C21 witness: only /app/configs is missing and the probe exited with 1
C21_Witness ==
    /\ exit_status = <<1>>
    /\ importable = RequiredPackages
    /\ existing_paths = {"/app/models/smpl", "/app/weights"}

\* C22: for both event shapes a put_events call answered with a non-zero
\* FailedEntryCount is treated as a publish failure: the publishing step does
\* not log the event as published.
C22_FailedEntryIsPublishFailure ==
    \A i \in 1..Len(put_events) :
        put_events[i].response = "failed_entry" => put_events[i].logged = "failed"

\* C23: on the success path the completion event is published only after
\* all five uploads, processed_count is incremented only after the event was
\* accepted, the success metrics are sent only after the increment, and the
\* cleanup runs only after both metrics; a completion-publish failure counts
\* the session as an error and never as processed.
C23_SuccessPathOrder ==
    /\ EventCalls("completion") # {} => Len(s3_keys) = Len(AssetOrder)
    /\ processed_count # stats_at_start.processed_count =>
            /\ EventsEmitted("completion") # {}
            /\ processed_count = stats_at_start.processed_count + 1
    /\ (\E i \in 1..Len(metric_calls) : metric_calls[i].name # "SMPL.ProcessingError") =>
            processed_count = stats_at_start.processed_count + 1
    /\ (cleanups # <<>> /\ error = "none") =>
            /\ Len(metric_calls) = 2
            /\ metric_calls[1].name = "SMPL.ProcessingSuccess"
            /\ metric_calls[2].name = "SMPL.ProcessingTime"
    /\ (EventCalls("completion") # {} /\ EventsEmitted("completion") = {}) =>
            /\ processed_count = stats_at_start.processed_count
            /\ pc = "done" => error_count = stats_at_start.error_count + 1

\* C23 witness: the bus answered the completion event with a failed entry
\* after five uploads, and the invocation raised with the error counted
C23_Witness ==
    /\ Raised
    /\ Len(s3_keys) = 5
    /\ \E i \in EventCalls("completion") : put_events[i].response = "failed_entry"
    /\ error_count = stats_at_start.error_count + 1
    /\ processed_count = stats_at_start.processed_count

\* C24: between sessions processed_count + error_count equals the number of
\* process_image invocations that have returned or raised since the process
\* started, and no step, health reads included, ever lowers either counter.
C24_CountersCountCompletedInvocations ==
    /\ [](pc \in {"idle", "done"} => processed_count + error_count = sessions_started)
    /\ [][processed_count' >= processed_count /\ error_count' >= error_count]_vars

\* C24 witness: two invocations done, one counted in each counter, and the
\* health status read afterwards
C24_Witness ==
    /\ pc = "done"
    /\ sessions_started = 2
    /\ processed_count = 1
    /\ error_count = 1
    /\ health # NoHealth

\* C25: the model cache, the model files and the load log change only in
\* the mesh-fitting step, so a session that fails in makedirs, download,
\* validation or pose estimation has made no _load_smpl_models call; the
\* cache is populated exactly when some call has succeeded in acquiring the
\* models, and once populated it is never emptied.
C25_ModelsAcquiredOnlyInMeshFitting ==
    /\ [][<<smpl_models, model_files, load_log>>' # <<smpl_models, model_files, load_log>> =>
            pc = "fit"]_vars
    /\ [](error \in {"makedirs", "download", "validation", "pose"} => "fit" \notin
            {stages_run[i] : i \in 1..Len(stages_run)})
    /\ [](ModelsLoaded(smpl_models) <=>
            \E i \in 1..Len(load_log) : ~load_log[i].cached /\ ~load_log[i].raised)
    /\ [][ModelsLoaded(smpl_models) => ModelsLoaded(smpl_models')]_vars

\* C25 witness: a session failed in pose estimation, no _load_smpl_models
\* call has been made in the process and the health status reports the
\* models as not loaded
C25_Witness ==
    /\ Raised
    /\ error = "pose"
    /\ load_log = <<>>
    /\ ~ModelsLoaded(smpl_models)
    /\ health # NoHealth
    /\ ~health.models_loaded

====
